---- MODULE Spec2Model ----
\* A model of 404.py, a multithreaded dead link crawler: the Worker threads,
\* the ThreadPool with its 'todo' and 'done' queues, LinkTask.run() and the
\* driver loop of run().
EXTENDS Integers, Sequences, FiniteSets, TLC

\* ------------------------------------------------------------------ bounds

\* Largest value of --threads explored (main() requires threads >= 1).
MaxThreads == 2

\* Largest number of links (<a href>, <img src>) in one response body.
MaxLinks == 2

\* ------------------------------------------------------------------- URLs

\* A URL is the record of the components urllib.parse.urlparse() splits it
\* into; frag = "" is a URL without a fragment.
Url(s, n, p, f) == [scheme |-> s, netloc |-> n, path |-> p, frag |-> f]

\* The absolute URLs of the modelled web: two pages on the seed's host "a",
\* each with and without a fragment, one page on another host, one URL whose
\* scheme is not http/https.
Urls ==
    { Url("http", "a", "/", ""),  Url("http", "a", "/", "x"),
      Url("http", "a", "/p", ""), Url("http", "a", "/p", "x"),
      Url("http", "b", "/", ""),  Url("mailto", "", "m", "") }

\* The values of the 'url' argument explored: with and without a fragment.
SeedUrls == { Url("http", "a", "/", ""), Url("http", "a", "/", "x") }

\* What an href/src attribute can hold: an absolute URL, or a reference made
\* of a fragment only ("#x").
Hrefs == [kind : {"abs"}, url : Urls] \cup { [kind |-> "frag", frag |-> "x"] }

\* Mutant of urldefrag: the fragment is kept.
urldefrag_Kept(link) == link

\* urllib.parse.urldefrag(link)[0]: the URL without its fragment.
urldefrag(link) == [link EXCEPT !.frag = ""]

\* urllib.parse.urljoin(base, href): an absolute href replaces the base, a
\* fragment-only href replaces the fragment of the base.
urljoin(base, href) ==
    IF href.kind = "abs" THEN href.url ELSE [base EXCEPT !.frag = href.frag]

\* ------------------------------------------------------------------ tasks

\* LinkTask.status before run() has set it.
StatusNone == 0

\* LinkTask.exception: None, or the class of the captured exception.
ExcNone == "None"
ExcTimeout == "Timeout"
ExcError == "Error"

\* LinkTask.__init__; 'id' stands for the identity of the object. Nothing
\* reads the elements of task.links between the append of run() and the
\* driver's 'for link in task.links', so the model keeps the length of the
\* list in 'links' and draws each element when the driver's loop reaches it
\* (DriverAdmit).
LinkTask(id, link, get_links) ==
    [id |-> id, link |-> link, get_links |-> get_links,
     links |-> 0, status |-> StatusNone, exception |-> ExcNone]

\* The status codes a response can carry.
StatusCodes == {200, 404}

\* What requests.get() and the parsing of the body can do for one request:
\* raise (Timeout or another error), or answer with a status code, a content
\* type that is HTML or not, and a body with 'nlinks' tags that hold a link;
\* 'bad_img' is a body with an <img> without src after them (tag['src']
\* raises KeyError).
Responses ==
    [raises : {ExcTimeout, ExcError}, status_code : {StatusNone}, html : {FALSE},
     nlinks : {0}, bad_img : {FALSE}]
    \cup
    [raises : {ExcNone}, status_code : StatusCodes, html : {FALSE},
     nlinks : {0}, bad_img : {FALSE}]
    \cup
    [raises : {ExcNone}, status_code : StatusCodes, html : {TRUE},
     nlinks : 0..MaxLinks, bad_img : BOOLEAN]

\* Mutant of LinkTask_run: the links are gathered whatever get_links says.
LinkTask_run_Ungated(task, r) ==
    IF r.raises # ExcNone
    THEN [task EXCEPT !.exception = r.raises]
    ELSE LET t1 == [task EXCEPT !.status = r.status_code]
         IN  IF t1.status >= 400 THEN t1
             ELSE IF ~r.html THEN t1
             ELSE LET t2 == [t1 EXCEPT !.links = r.nlinks]
                  IN  IF r.bad_img THEN [t2 EXCEPT !.exception = ExcError] ELSE t2

\* LinkTask.run(): the task after its request got response r.
LinkTask_run(task, r) ==
    IF r.raises # ExcNone
    THEN [task EXCEPT !.exception = r.raises]
    ELSE LET t1 == [task EXCEPT !.status = r.status_code]
         IN  IF ~task.get_links THEN t1
             ELSE IF t1.status >= 400 THEN t1
             ELSE IF ~r.html THEN t1
             ELSE LET t2 == [t1 EXCEPT !.links = r.nlinks]
                  IN  IF r.bad_img THEN [t2 EXCEPT !.exception = ExcError] ELSE t2

\* LinkTask.run(): the exception raised in the body of the try for response
\* r, ExcNone if the body ends without one.
Raised(task, r) ==
    IF r.raises # ExcNone THEN r.raises
    ELSE IF task.get_links /\ r.status_code < 400 /\ r.html /\ r.bad_img THEN ExcError
    ELSE ExcNone

\* ------------------------------------------------------------------ state

VARIABLES
    cfg,            \* the arguments of run(): url, internal, external, print_all, threads
    todo,           \* ThreadPool.todo, a FIFO Queue of tasks
    done,           \* ThreadPool.done, a FIFO Queue of tasks
    unfinished,     \* todo.unfinished_tasks: put() adds one, task_done() takes one
    pending_tasks,  \* ThreadPool.pending_tasks
    wpc,            \* per Worker thread: the statement of Worker.run it is at
    wtask,          \* per Worker thread: its local 'task'
    dpc,            \* the driver thread: the statement of run() it is at
    task,           \* the driver's loop variable 'task'
    li,             \* the position of 'for link in task.links' (0 outside the loop)
    link_cache,     \* the set link_cache of run()
    status,         \* the exit status of run()
    out,            \* the lines written to stdout
    err,            \* the lines written to stderr
    st,             \* st_total_links, st_internal, st_external
    submitted,      \* history: the tasks passed to add_task, in order, each with the
                    \* id of the task whose links it comes from (0: the root)
    yielded,        \* history: the tasks poll_completed_tasks yielded, in order
    reads           \* history: the links the loop over task.links has read (NextR only)

vars == << cfg, todo, done, unfinished, pending_tasks, wpc, wtask, dpc, task, li,
           link_cache, status, out, err, st, submitted, yielded, reads >>

poolVars == << todo, done, unfinished, wpc, wtask >>
driverVars == << pending_tasks, dpc, task, li, link_cache, status, out, err, st,
                 submitted, yielded, reads >>

\* The driver's 'task' outside the loop body.
NoTask == LinkTask(0, Url("", "", "", ""), FALSE)

Workers == 1..cfg.threads

\* urllib.parse.urlparse(url).netloc of the seed.
netloc == cfg.url.netloc

\* Mutant of add_task_pending: add_task forgets the counter.
add_task_pending_Forgotten(n) == n

\* ThreadPool.add_task: the counter after one more task.
add_task_pending(n) == n + 1

\* The arguments of run() explored: every policy of make_parser() and both
\* values of --print-all; a seed without fragment with 1..MaxThreads workers,
\* the seed with a fragment (one more task) with one worker.
Configs ==
    { c \in [url : SeedUrls, internal : {"check", "follow"},
             external : {"check", "ignore", "follow"},
             print_all : BOOLEAN, threads : 1..MaxThreads] :
        c.threads = 1 \/ c.url.frag = "" }

\* The state after run() has created the pool, added the task of the root,
\* started the workers and built link_cache, netloc and the statistics, and
\* poll_completed_tasks has entered its loop (pending_tasks is 1).
Init ==
    /\ cfg \in Configs
    /\ todo = << LinkTask(1, cfg.url, TRUE) >>
    /\ done = <<>>
    /\ unfinished = 1
    /\ pending_tasks = add_task_pending(0)
    /\ wpc = [w \in Workers |-> "get"]
    /\ wtask = [w \in Workers |-> NoTask]
    /\ dpc = "wait"
    /\ task = NoTask
    /\ li = 0
    /\ link_cache = { cfg.url }
    /\ status = 0
    /\ out = <<>>
    /\ err = <<>>
    /\ st = [total_links |-> 1, internal |-> 1, external |-> 0]
    /\ submitted = << [id |-> 1, link |-> cfg.url, get_links |-> TRUE, from |-> 0] >>
    /\ yielded = <<>>
    /\ reads = {}

\* ---------------------------------------------------------------- workers

\* Mutant of Queue_get_rest: get() returns the item and leaves it queued.
Queue_get_rest_Peek(q) == q

\* Queue.get(): the queue after get() has returned its first item.
Queue_get_rest(q) == Tail(q)

\* Mutant of Caught: the handler catches timeouts only.
Caught_TimeoutOnly(exc) == exc = ExcTimeout

\* LinkTask.run(): the bare 'except:' catches every exception raised in the
\* body of the try.
Caught(exc) == TRUE

\* Mutant of Worker_pending: the worker counts the completed task itself.
Worker_pending_Decremented(n) == n - 1

\* Worker.run(): pool.pending_tasks across one pass of the worker's loop; a
\* Worker holds the two queues only, never the pool.
Worker_pending(n) == n

\* Mutant of Queue_task_done: the completed task is not counted.
Queue_task_done_Forgotten(n) == n

\* Queue.task_done(): the count of unfinished tasks of the queue.
Queue_task_done(n) == n - 1

\* task = self.todo.get()
WorkerGet(w) ==
    /\ wpc[w] = "get"
    /\ todo # <<>>
    /\ wtask' = [wtask EXCEPT ![w] = Head(todo)]
    /\ todo' = Queue_get_rest(todo)
    /\ wpc' = [wpc EXCEPT ![w] = "run"]
    /\ UNCHANGED << cfg, done, unfinished >>
    /\ UNCHANGED driverVars

\* task.run(): an exception the handler of LinkTask.run() does not catch
\* would leave Worker.run() and end the thread ("dead").
WorkerRun(w) ==
    /\ wpc[w] = "run"
    /\ \E r \in Responses :
         /\ wtask' = [wtask EXCEPT ![w] = LinkTask_run(wtask[w], r)]
         /\ wpc' = [wpc EXCEPT ![w] =
                      IF Raised(wtask[w], r) = ExcNone \/ Caught(Raised(wtask[w], r))
                      THEN "put" ELSE "dead"]
    /\ UNCHANGED << cfg, todo, done, unfinished >>
    /\ UNCHANGED driverVars

\* self.done.put(task)
WorkerPut(w) ==
    /\ wpc[w] = "put"
    /\ done' = Append(done, wtask[w])
    /\ wpc' = [wpc EXCEPT ![w] = "task_done"]
    /\ UNCHANGED << cfg, todo, unfinished, wtask >>
    /\ UNCHANGED driverVars

\* self.todo.task_done(), and back to the top of the loop; the local 'task'
\* is dead until the next get() assigns it
WorkerTaskDone(w) ==
    /\ wpc[w] = "task_done"
    /\ unfinished' = Queue_task_done(unfinished)
    /\ wpc' = [wpc EXCEPT ![w] = "get"]
    /\ wtask' = [wtask EXCEPT ![w] = NoTask]
    /\ pending_tasks' = Worker_pending(pending_tasks)
    /\ UNCHANGED << cfg, todo, done >>
    /\ UNCHANGED << dpc, task, li, link_cache, status, out, err, st, submitted, yielded,
                    reads >>

\* ----------------------------------------------------------------- driver

\* Mutant of resume_pending: the generator forgets the counter.
resume_pending_Forgotten(n) == n

\* Mutant of PollContinues: the loop ends with one task outstanding.
PollContinues_OffByOne(n) == n > 1

\* poll_completed_tasks: the test of 'while self.pending_tasks > 0'.
PollContinues(n) == n > 0

\* poll_completed_tasks: 'self.pending_tasks -= 1', run when the generator is
\* resumed after the loop body of run().
resume_pending(n) == n - 1

\* Mutant of TaskFailed: the captured exception is never looked at.
TaskFailed_Never(t) == FALSE

\* Mutant of TaskFailed: only a timeout counts as a failed request.
TaskFailed_TimeoutOnly(t) == t.exception = ExcTimeout

\* Mutant of TaskFailed: a status code >= 400 counts as a failed request.
TaskFailed_Or4xx(t) == t.exception # ExcNone \/ t.status >= 400

\* run(): 'if task.exception:'.
TaskFailed(t) == t.exception # ExcNone

\* Mutant of StatusAfterFailure: the failure is reported, the status kept.
StatusAfterFailure_Kept(s) == s

\* run(): the exit status after a task with a captured exception.
StatusAfterFailure(s) == 1

\* Mutant of PrintsStatus: every status is printed.
PrintsStatus_Always(print_all, t) == TRUE

\* run(): whether a status line is written for a task without exception.
PrintsStatus(print_all, t) == print_all \/ (t.status >= 400)

\* Mutant of AcceptedScheme: every scheme is accepted.
AcceptedScheme_Any(parsed) == TRUE

\* run(): 'parsed.scheme in ('http', 'https')'.
AcceptedScheme(parsed) == parsed.scheme \in {"http", "https"}

\* run(): 'is_internal = (parsed.netloc == netloc)'.
IsInternal(parsed, seed_netloc) == parsed.netloc = seed_netloc

\* Mutant of IgnoredExternal: the wrong policy is compared.
IgnoredExternal_WrongPolicy(is_external, external) == is_external /\ external = "check"

\* run(): 'is_external and external == 'ignore''.
IgnoredExternal(is_external, external) == is_external /\ external = "ignore"

\* Mutant of FollowFlag: every accepted link is followed.
FollowFlag_Always(is_internal, internal, external) == TRUE

\* run(): the get_links flag of the task of an accepted link.
FollowFlag(is_internal, internal, external) ==
    IF is_internal THEN internal = "follow" ELSE external = "follow"

\* The key under which run() looks a link up in link_cache.
CacheKey(link) == urldefrag(link)

\* The effect of one iteration of 'for link in task.links' on the state of
\* the driver and of the pool, kept in the record d; raw is the element read
\* and from the id of the task it was read from.
AdmitLink(d, raw, from) ==
    LET link == CacheKey(raw)
        parsed == link
        is_internal == IsInternal(parsed, netloc)
        is_external == ~is_internal
        get_links == FollowFlag(is_internal, cfg.internal, cfg.external)
        id == Len(d.submitted) + 1
        d1 == [d EXCEPT !.reads = @ \cup { raw }]
    IN  IF link \in d.link_cache THEN d1
        ELSE LET d2 == [d1 EXCEPT !.link_cache = @ \cup { link }]
             IN  IF ~AcceptedScheme(parsed) THEN d2
                 ELSE IF IgnoredExternal(is_external, cfg.external) THEN d2
                 ELSE [d2 EXCEPT
                         !.pending_tasks = add_task_pending(@),
                         !.todo = Append(@, LinkTask(id, link, get_links)),
                         !.unfinished = @ + 1,
                         !.submitted = Append(@, [id |-> id, link |-> link,
                                                  get_links |-> get_links,
                                                  from |-> from]),
                         !.st = [total_links |-> @.total_links + 1,
                                 internal |-> @.internal + (IF is_internal THEN 1 ELSE 0),
                                 external |-> @.external + (IF is_internal THEN 0 ELSE 1)]]

\* yield self.wait_for_task(): done.get(block = False) until it returns a
\* task (an empty queue is a sleep of 0.1 s and another try, which changes
\* nothing).
DriverWait ==
    /\ dpc = "wait"
    /\ done # <<>>
    /\ task' = Head(done)
    /\ done' = Tail(done)
    /\ yielded' = Append(yielded, [id |-> Head(done).id, status |-> Head(done).status,
                                    exception |-> Head(done).exception])
    /\ dpc' = "body"
    /\ UNCHANGED << cfg, todo, unfinished, wpc, wtask >>
    /\ UNCHANGED << pending_tasks, li, link_cache, status, out, err, st, submitted, reads >>

\* The loop body of run() for the yielded task up to 'for link in
\* task.links': the report of a failure, or the status line.
DriverBody ==
    /\ dpc = "body"
    /\ IF TaskFailed(task)
       THEN /\ status' = StatusAfterFailure(status)
            /\ err' = Append(err, [id |-> task.id, link |-> task.link,
                                   message |-> IF task.exception = ExcTimeout
                                               THEN "timeout" ELSE "error"])
            /\ dpc' = "resume"
            /\ UNCHANGED << out, li >>
       ELSE /\ out' = IF PrintsStatus(cfg.print_all, task)
                      THEN Append(out, [id |-> task.id, status |-> task.status,
                                        link |-> task.link])
                      ELSE out
            /\ IF task.links = 0 THEN dpc' = "resume" /\ UNCHANGED li
               ELSE dpc' = "admit" /\ li' = 1
            /\ UNCHANGED << status, err >>
    /\ UNCHANGED << link_cache, pending_tasks, todo, unfinished, submitted, st, reads >>
    /\ UNCHANGED << cfg, done, wpc, wtask, task, yielded >>

\* One iteration of 'for link in task.links': element li of the list is
\* drawn (the absolute link urljoin made of a href of the body) and admitted.
\* The links read are recorded in 'reads' when 'record' is set.
DriverAdmit(record) ==
    /\ dpc = "admit"
    /\ \E href \in Hrefs :
         LET d == AdmitLink([link_cache |-> link_cache,
                            pending_tasks |-> pending_tasks,
                            todo |-> todo, unfinished |-> unfinished,
                            submitted |-> submitted, st |-> st,
                            reads |-> reads], urljoin(task.link, href), task.id)
         IN  /\ link_cache' = d.link_cache
             /\ pending_tasks' = d.pending_tasks
             /\ todo' = d.todo
             /\ unfinished' = d.unfinished
             /\ submitted' = d.submitted
             /\ st' = d.st
             /\ reads' = IF record THEN d.reads ELSE reads
    /\ IF li < task.links THEN li' = li + 1 /\ dpc' = "admit"
       ELSE li' = 0 /\ dpc' = "resume"
    /\ UNCHANGED << cfg, done, wpc, wtask, task, yielded, status, out, err >>

\* The generator resumed: self.pending_tasks -= 1, then the test of
\* 'while self.pending_tasks > 0'. The loop variable 'task' is dead until the
\* next yield assigns it.
DriverResume ==
    /\ dpc = "resume"
    /\ pending_tasks' = resume_pending(pending_tasks)
    /\ dpc' = IF PollContinues(pending_tasks') THEN "wait" ELSE "join"
    /\ task' = NoTask
    /\ UNCHANGED << cfg, li, link_cache, status, out, err, st, submitted, yielded, reads >>
    /\ UNCHANGED poolVars

\* self.todo.join() returns when every task put was marked task_done();
\* the generator ends, run() leaves the loop and calls sys.exit(status).
DriverJoin ==
    /\ dpc = "join"
    /\ unfinished = 0
    /\ dpc' = "exit"
    /\ UNCHANGED << cfg, pending_tasks, task, li, link_cache, status, out, err, st,
                    submitted, yielded, reads >>
    /\ UNCHANGED poolVars

Next ==
    \/ \E w \in Workers : WorkerGet(w)
    \/ \E w \in Workers : WorkerRun(w)
    \/ \E w \in Workers : WorkerPut(w)
    \/ \E w \in Workers : WorkerTaskDone(w)
    \/ DriverWait
    \/ DriverBody
    \/ DriverAdmit(FALSE)
    \/ DriverResume
    \/ DriverJoin

Spec == Init /\ [][Next]_vars

\* The scheduling of the threads: the driver thread and every started Worker
\* thread keep running (a step of a thread that stays possible is eventually
\* taken); with WorkerRun this is 'every LinkTask.run() eventually returns'.
DriverStep == DriverWait \/ DriverBody \/ DriverAdmit(FALSE) \/ DriverResume \/ DriverJoin

WorkerStep(w) ==
    /\ w \in Workers
    /\ (WorkerGet(w) \/ WorkerRun(w) \/ WorkerPut(w) \/ WorkerTaskDone(w))

FairSpec ==
    /\ Spec
    /\ WF_vars(DriverStep)
    /\ \A w \in 1..MaxThreads : WF_vars(WorkerStep(w))

\* The same program, with the history of the links read kept in 'reads'.
NextR ==
    \/ \E w \in Workers : WorkerGet(w)
    \/ \E w \in Workers : WorkerRun(w)
    \/ \E w \in Workers : WorkerPut(w)
    \/ \E w \in Workers : WorkerTaskDone(w)
    \/ DriverWait
    \/ DriverBody
    \/ DriverAdmit(TRUE)
    \/ DriverResume
    \/ DriverJoin

\* Explored without --print-all, which plays no part in the admission of links.
InitR == Init /\ ~cfg.print_all

ReadsSpec == InitR /\ [][NextR]_vars

\* requests.get() of one task never returns (no --timeout, a server that
\* never answers): the Worker stays in task.run(). At most one request hangs.
WorkerHang(w) ==
    /\ wpc[w] = "run"
    /\ \A v \in Workers : wpc[v] # "hung"
    /\ wpc' = [wpc EXCEPT ![w] = "hung"]
    /\ UNCHANGED << cfg, todo, done, unfinished, wtask >>
    /\ UNCHANGED driverVars

\* The program with a request that may hang.
NextH ==
    \/ Next
    \/ \E w \in Workers : WorkerHang(w)

\* Two workers or more, explored without --print-all.
InitH == Init /\ cfg.threads >= 2 /\ ~cfg.print_all

\* The threads keep running as in FairSpec; nothing makes a request hang or
\* return from a hung request.
HungSpec ==
    /\ InitH /\ [][NextH]_vars
    /\ WF_vars(DriverStep)
    /\ \A w \in 1..MaxThreads : WF_vars(WorkerStep(w))

\* ------------------------------------------------------------- properties

TypeOK ==
    /\ pending_tasks \in Nat
    /\ unfinished \in Nat
    /\ status \in {0, 1}

\* Two URLs are equal after fragment stripping: they differ at most in the
\* fragment.
SameButFragment(u, v) ==
    u.scheme = v.scheme /\ u.netloc = v.netloc /\ u.path = v.path

\* The ids of the submitted tasks, and of the yielded ones.
SubmittedIds == 1..Len(submitted)
YieldedAt(id) == { i \in 1..Len(yielded) : yielded[i].id = id }

\* The driver is between the yield of a task and the resumption of the
\* generator: it is handling the task yielded last.
InLoopBody == dpc \in {"body", "admit", "resume"}

\* C1: At-most-once visitation: no two tasks submitted to the pool, the seed
\* task included, have URLs that are equal after fragment stripping.
C1_AtMostOnceVisitation ==
    \A i, j \in SubmittedIds :
        i # j => ~SameButFragment(submitted[i].link, submitted[j].link)

\* C3: Drain completeness: the loop of poll_completed_tasks() is left only
\* when every task passed to add_task has been yielded, the tasks added
\* while a yielded task was processed included; no task is yielded twice and
\* only submitted tasks are yielded.
C3_DrainCompleteness ==
    /\ \A id \in SubmittedIds : Cardinality(YieldedAt(id)) <= 1
    /\ \A i \in 1..Len(yielded) : yielded[i].id \in SubmittedIds
    /\ dpc \in {"join", "exit"} =>
          /\ Len(yielded) = Len(submitted)
          /\ \A id \in SubmittedIds : Cardinality(YieldedAt(id)) = 1

\* C3 witness: the loop has ended after tasks were added while the driver
\* processed the only outstanding task (the seed's), and a further one while
\* it processed a later task.
C3_Witness ==
    /\ dpc = "exit"
    /\ Len(submitted) >= 3
    /\ \E i \in SubmittedIds : submitted[i].from > 1
    /\ Len(yielded) = Len(submitted)

\* C10 as claimed: pending_tasks equals the tasks submitted minus the tasks
\* the driver has taken from the done queue, in every reachable state.
C10_PendingIsSubmittedMinusDrained ==
    pending_tasks = Len(submitted) - Len(yielded)

\* C10 amended: pending_tasks equals the tasks submitted minus the tasks the
\* driver has taken from the done queue, plus one while the driver is still
\* handling the task it took last (the counter is decremented only when the
\* generator is resumed after the loop body).
C10_PendingCount ==
    pending_tasks = Len(submitted) - Len(yielded) + (IF InLoopBody THEN 1 ELSE 0)

\* C10 witness: the driver has admitted links of the yielded task and has not
\* yet resumed the generator, with other tasks drained before.
C10_Witness ==
    /\ dpc = "resume"
    /\ Len(yielded) >= 2
    /\ Len(submitted) > Len(yielded)
    /\ pending_tasks = Len(submitted) - Len(yielded) + 1

\* The positions in 'yielded' of the tasks the loop body of run() has
\* handled: all of them, but the last one while the driver is about to
\* handle it.
Processed == 1..(IF dpc = "body" THEN Len(yielded) - 1 ELSE Len(yielded))

OutLines(id) == { k \in 1..Len(out) : out[k].id = id }
ErrLines(id) == { k \in 1..Len(err) : err[k].id = id }

External == Url("http", "b", "/", "")

\* C4 as claimed: with internal=check and external=ignore the seed task is
\* the only task; no task is created for a link discovered in the seed page.
\* (Stated for the links to other URLs than the seed's own, so that the second
\* task of a seed given with a fragment does not count.)
C4_OnlySeedTask ==
    (cfg.internal = "check" /\ cfg.external = "ignore") =>
        \A i \in SubmittedIds : SameButFragment(submitted[i].link, cfg.url)

\* C4 amended: with internal=check and external=ignore every task submitted
\* besides the seed task is a check-only task (get_links false) for an
\* internal http/https link found in the seed page; no task is created for
\* an external link or for a link of any other page.
C4_CheckIgnore ==
    (cfg.internal = "check" /\ cfg.external = "ignore") =>
        \A i \in SubmittedIds : i > 1 =>
            /\ ~submitted[i].get_links
            /\ submitted[i].link.netloc = cfg.url.netloc
            /\ submitted[i].link.scheme \in {"http", "https"}
            /\ submitted[i].from = 1

\* C4 witness: a finished check/ignore run whose seed page held an internal
\* link, which got a task, and an external one, which was dropped.
C4_Witness ==
    /\ cfg.internal = "check" /\ cfg.external = "ignore"
    /\ dpc = "exit"
    /\ Len(submitted) >= 2
    /\ External \in link_cache

\* C5: with internal=follow and external=ignore every task ever submitted has
\* the network location of the seed, over all the pages followed.
C5_FollowIgnore ==
    (cfg.internal = "follow" /\ cfg.external = "ignore") =>
        \A i \in SubmittedIds : submitted[i].link.netloc = cfg.url.netloc

\* C5 witness: a finished follow/ignore run in which a followed page other
\* than the seed produced a task and an external link was met and dropped.
C5_Witness ==
    /\ cfg.internal = "follow" /\ cfg.external = "ignore"
    /\ dpc = "exit"
    /\ \E i \in SubmittedIds : submitted[i].from > 1
    /\ External \in link_cache

\* The yielded tasks that ended with a captured timeout.
TimedOut == { i \in 1..Len(yielded) : yielded[i].exception = ExcTimeout }

\* C6: Failure isolation: when exactly one task, not the seed's, ended with a
\* captured timeout, the loop still ends only with pending_tasks zero and
\* every submitted task executed and yielded once; every other task is
\* reported by the status filter (or as a diagnostic if it failed), and the
\* exit status is 1.
C6_FailureIsolation ==
    (dpc = "exit" /\ Cardinality(TimedOut) = 1 /\ \A i \in TimedOut : yielded[i].id # 1) =>
        /\ status = 1
        /\ pending_tasks = 0
        /\ \A id \in SubmittedIds : Cardinality(YieldedAt(id)) = 1
        /\ \A i \in 1..Len(yielded) :
              LET y == yielded[i] IN
              /\ y.status # StatusNone \/ y.exception # ExcNone
              /\ IF y.exception = ExcNone
                 THEN /\ Cardinality(ErrLines(y.id)) = 0
                      /\ Cardinality(OutLines(y.id)) =
                            (IF cfg.print_all \/ y.status >= 400 THEN 1 ELSE 0)
                 ELSE /\ Cardinality(OutLines(y.id)) = 0
                      /\ Cardinality(ErrLines(y.id)) = 1

\* C6 witness: a finished run with one timeout, on a task other than the
\* seed's, and a task submitted after that timeout was handled that completed
\* with a status >= 400 and was reported.
C6_Witness ==
    /\ dpc = "exit"
    /\ Cardinality(TimedOut) = 1
    /\ status = 1
    /\ \E i \in TimedOut :
          /\ yielded[i].id # 1
          /\ \E j \in 1..Len(yielded) :
                /\ j > i
                /\ yielded[j].exception = ExcNone
                /\ yielded[j].status >= 400
                /\ OutLines(yielded[j].id) # {}

\* The exit status as the tasks handled so far determine it.
C7_StatusMatchesFailures ==
    status = (IF \E i \in Processed : yielded[i].exception # ExcNone THEN 1 ELSE 0)

\* C7: Exit status: the exit status is 1 if and only if a task handled by the
\* driver carried a captured exception, in particular when the loop has
\* ended; a status code >= 400 without exception does not set it, and once 1
\* it stays 1.
C7_ExitStatus ==
    /\ [](C7_StatusMatchesFailures)
    /\ [][status = 1 => status' = 1]_vars

\* C7 witness: a finished run with exit status 0 in which a task completed
\* with a status code >= 400.
C7_Witness ==
    /\ dpc = "exit"
    /\ status = 0
    /\ \E i \in 1..Len(yielded) : yielded[i].status >= 400

\* C8: Status filtering: every line on stdout is '<status>: <url>' of a
\* handled task without exception, and with print_all unset of one with a
\* status >= 400; with print_all set every handled task without exception
\* has a line; a failed task has a diagnostic on stderr instead; no task has
\* more than one line.
C8_StatusFiltering ==
    /\ \A k \in 1..Len(out) :
          /\ \E i \in Processed :
                /\ yielded[i].id = out[k].id
                /\ yielded[i].exception = ExcNone
                /\ yielded[i].status = out[k].status
          /\ out[k].link = submitted[out[k].id].link
          /\ ~cfg.print_all => out[k].status >= 400
    /\ cfg.print_all =>
          \A i \in Processed : yielded[i].exception = ExcNone => OutLines(yielded[i].id) # {}
    /\ \A i \in Processed : yielded[i].exception # ExcNone => ErrLines(yielded[i].id) # {}
    /\ \A id \in SubmittedIds : Cardinality(OutLines(id)) + Cardinality(ErrLines(id)) <= 1

\* C8 witness: a finished run without print_all in which a task with a
\* status below 400 got no line and a task with a status >= 400 got one.
C8_Witness ==
    /\ ~cfg.print_all
    /\ dpc = "exit"
    /\ \E i \in 1..Len(yielded) :
          /\ yielded[i].exception = ExcNone
          /\ yielded[i].status < 400
          /\ OutLines(yielded[i].id) = {}
    /\ \E k \in 1..Len(out) : out[k].status >= 400

\* The driver waits on an empty done queue with tasks pending while no
\* worker holds a task and none is in the todo queue.
C2_Deadlocked ==
    /\ dpc = "wait"
    /\ pending_tasks > 0
    /\ done = <<>>
    /\ todo = <<>>
    /\ \A w \in Workers : wpc[w] = "get"

\* C2: Termination: with the threads scheduled fairly and every run()
\* returning, the loop over poll_completed_tasks() eventually ends, with
\* pending_tasks zero, and no reachable state is a deadlock.
C2_Termination ==
    /\ <>(dpc = "exit" /\ pending_tasks = 0)
    /\ [](~C2_Deadlocked)

\* C2 witness: the loop has ended after a crawl of several pages, one of them
\* reached through a followed page.
C2_Witness ==
    /\ dpc = "exit"
    /\ pending_tasks = 0
    /\ Len(submitted) >= 3
    /\ \E i \in SubmittedIds : submitted[i].from > 1

\* The pairs of links read by the driver that differ only in the fragment.
FragmentPairs ==
    { p \in reads \X reads : p[1] # p[2] /\ SameButFragment(p[1], p[2]) }

\* The entries the seen-set gained for link r, and the tasks submitted for it
\* (the seed's entry and the seed's task are there from the start).
EntriesFor(r) == { k \in link_cache \ { cfg.url } : SameButFragment(k, r) }
TasksFor(r) == { i \in SubmittedIds : i > 1 /\ SameButFragment(submitted[i].link, r) }

\* C9 as claimed: for any two discovered links that differ only in the
\* fragment the seen-set gains exactly one entry and exactly one task is
\* submitted.
C9_ExactlyOneEntryAndTask ==
    \A p \in FragmentPairs :
        /\ Cardinality(EntriesFor(p[1])) = 1
        /\ Cardinality(TasksFor(p[1])) = 1

\* One task for r: r without fragment was not the seed as given, has scheme
\* http/https and is not an external link under external=ignore.
C9_Admissible(r) ==
    /\ [scheme |-> r.scheme, netloc |-> r.netloc, path |-> r.path, frag |-> ""] # cfg.url
    /\ r.scheme \in {"http", "https"}
    /\ ~(r.netloc # cfg.url.netloc /\ cfg.external = "ignore")

C9_AtMostOneEntryAndTask ==
    \A p \in FragmentPairs :
        LET r == p[1]
            stripped == [scheme |-> r.scheme, netloc |-> r.netloc, path |-> r.path,
                         frag |-> ""]
        IN  /\ stripped \in link_cache
            /\ EntriesFor(r) = (IF stripped = cfg.url THEN {} ELSE { stripped })
            /\ Cardinality(TasksFor(r)) = (IF C9_Admissible(r) THEN 1 ELSE 0)

\* C9 amended: for any two discovered links that differ only in the fragment
\* the seen-set gains at most one entry, the fragment-stripped URL (none if
\* it was there already, as the seed's URL is), and at most one task is
\* submitted: one if the stripped URL was new, has scheme http/https and is
\* not an ignored external link, none otherwise; no task is ever submitted
\* for a URL already in the seen-set, which never loses an entry.
C9_FragmentIdempotence ==
    /\ [](C9_AtMostOneEntryAndTask)
    /\ [][ /\ link_cache \subseteq link_cache'
           /\ \A i \in (Len(submitted) + 1)..Len(submitted') :
                 submitted'[i].link \notin link_cache ]_vars

\* C9 witness: two links that differ only in the fragment were read, one task
\* stands for both, and the run has ended.
C9_Witness ==
    /\ dpc = "exit"
    /\ \E p \in FragmentPairs :
          /\ Cardinality(TasksFor(p[1])) = 1
          /\ Cardinality(EntriesFor(p[1])) = 1

\* C11: Startup failure: when the request of the seed fails (a timeout or
\* any other captured error), no link is admitted and no further task is
\* submitted: the seen-set stays the seed alone, the seed's task stays the
\* only task submitted and yielded, the driver never waits for another task,
\* and once the failure is handled the exit status is 1.
C11_StartupFailure ==
    (Len(yielded) >= 1 /\ yielded[1].exception # ExcNone) =>
        /\ yielded[1].id = 1
        /\ Len(yielded) = 1
        /\ Len(submitted) = 1
        /\ link_cache = { cfg.url }
        /\ todo = <<>> /\ done = <<>>
        /\ dpc \in {"body", "resume", "join", "exit"}
        /\ dpc # "body" => status = 1
        /\ dpc \in {"join", "exit"} => pending_tasks = 0

\* C11 witness: the run has ended after the seed's task failed with links
\* already extracted from its body.
C11_Witness ==
    /\ dpc = "exit"
    /\ status = 1
    /\ Len(yielded) = 1
    /\ yielded[1].exception = ExcError
    /\ yielded[1].status # StatusNone

\* A URL without its fragment, written out field by field.
Stripped(u) == [scheme |-> u.scheme, netloc |-> u.netloc, path |-> u.path, frag |-> ""]

\* The admission rule of C12 for a fragment-stripped link k: rejected when
\* the scheme is not http/https or when it is external under external=ignore.
C12_Rejected(k) ==
    \/ k.scheme \notin {"http", "https"}
    \/ (k.netloc # cfg.url.netloc /\ cfg.external = "ignore")

\* The get_links flag C12 gives the task of an admitted link k.
C12_ShouldFollow(k) ==
    \/ (k.netloc = cfg.url.netloc /\ cfg.internal = "follow")
    \/ (k.netloc # cfg.url.netloc /\ cfg.external = "follow")

\* One step of the driver over a link that was not in the seen-set: the
\* seen-set gains the fragment-stripped link, and the pool gains nothing if
\* the link is rejected, exactly one new task otherwise.
C12_AdmitStep ==
    link_cache' # link_cache =>
        \E k \in link_cache' \ link_cache :
            /\ link_cache' = link_cache \cup { k }
            /\ k.frag = ""
            /\ \E r \in reads' : Stripped(r) = k
            /\ IF C12_Rejected(k)
               THEN /\ submitted' = submitted
                    /\ todo' = todo
                    /\ pending_tasks' = pending_tasks
               ELSE /\ Len(submitted') = Len(submitted) + 1
                    /\ \A i \in 1..Len(submitted) : submitted'[i] = submitted[i]
                    /\ submitted'[Len(submitted')].link = k
                    /\ submitted'[Len(submitted')].get_links = C12_ShouldFollow(k)
                    /\ Len(todo') = Len(todo) + 1
                    /\ \A i \in 1..Len(todo) : todo'[i] = todo[i]
                    /\ todo'[Len(todo')].id = Len(submitted')
                    /\ todo'[Len(todo')].link = k
                    /\ todo'[Len(todo')].get_links = C12_ShouldFollow(k)
                    /\ pending_tasks' = pending_tasks + 1

\* C12: Admission decision: every link the driver has read has its
\* fragment-stripped URL in the seen-set; a step over a link not yet in the
\* seen-set adds it and rejects it (bad scheme, or external under
\* external=ignore) or submits exactly one task with get_links true iff
\* (internal and internal=follow) or (external and external=follow); a task
\* is submitted only in such a step, never for a URL already in the seen-set.
C12_AdmissionDecision ==
    /\ [](\A r \in reads : Stripped(r) \in link_cache)
    /\ [][C12_AdmitStep]_vars
    /\ [][submitted' # submitted =>
             /\ link_cache' # link_cache
             /\ submitted'[Len(submitted')].link \notin link_cache]_vars

\* C12 witness: a finished run in which a link with another scheme was
\* rejected, a check-only task and a following task were submitted.
C12_Witness ==
    /\ dpc = "exit"
    /\ Url("mailto", "", "m", "") \in link_cache
    /\ \E i, j \in SubmittedIds :
          /\ i > 1 /\ j > 1
          /\ submitted[i].get_links
          /\ ~submitted[j].get_links
    /\ \A i \in SubmittedIds : submitted[i].link.scheme = "http"

\* Where the task with a given id is: the positions it has in the todo
\* queue and in the done queue, and the workers that have taken it and not
\* yet put it on the done queue.
InTodo(id) == { i \in 1..Len(todo) : todo[i].id = id }
InDone(id) == { i \in 1..Len(done) : done[i].id = id }
HeldBy(id) == { w \in Workers : wpc[w] \in {"run", "put"} /\ wtask[w].id = id }

\* run() has not been called on t; run() has returned on t.
NotRun(t) == t.status = StatusNone /\ t.exception = ExcNone /\ t.links = 0
RunReturned(t) == t.status # StatusNone \/ t.exception # ExcNone

\* Every submitted task is in exactly one place: waiting in todo, with one
\* worker, waiting in done, or yielded to the driver.
C13_OneOwner ==
    \A id \in SubmittedIds :
        Cardinality(InTodo(id)) + Cardinality(HeldBy(id))
            + Cardinality(InDone(id)) + Cardinality(YieldedAt(id)) = 1

\* run() has not started on a task in todo and has returned on every task
\* in done and on the task the driver handles; a worker about to call
\* run() holds a task never run before.
C13_HandedOverAfterRun ==
    /\ \A i \in 1..Len(todo) : NotRun(todo[i])
    /\ \A i \in 1..Len(done) : RunReturned(done[i])
    /\ InLoopBody => RunReturned(task) /\ YieldedAt(task.id) = { Len(yielded) }
    /\ \A w \in Workers :
          /\ wpc[w] = "run" => NotRun(wtask[w])
          /\ wpc[w] = "put" => RunReturned(wtask[w])

\* A worker's task changes only by get() (the head of todo), by run() on a
\* task it holds, not yet run and not yet handed over, or by leaving it after
\* task_done(); the done queue changes only by the put of a task run() has
\* returned on or by the driver's get, and the task the driver took is the
\* task as it was put.
C13_WorkerWrites ==
    /\ \A w \in Workers :
          wtask'[w] # wtask[w] =>
              \/ wpc[w] = "get" /\ todo # <<>> /\ wtask'[w] = Head(todo)
              \/ /\ wpc[w] = "run"
                 /\ wtask'[w].id = wtask[w].id
                 /\ InDone(wtask[w].id) = {} /\ YieldedAt(wtask[w].id) = {}
              \/ wpc[w] = "task_done" /\ wtask'[w].id = 0
    /\ done' # done =>
          \/ \E w \in Workers : wpc[w] = "put" /\ done' = Append(done, wtask[w])
          \/ done # <<>> /\ done' = Tail(done) /\ task' = Head(done)

\* C13: Task ownership: each submitted task is taken by one worker and run
\* once; the driver takes a task from the done queue only after run()
\* returned on it, and no worker writes a task after putting it there.
C13_TaskOwnership ==
    /\ [](C13_OneOwner)
    /\ [](C13_HandedOverAfterRun)
    /\ [][C13_WorkerWrites]_vars

\* C13 witness: the driver admits the links of the task it took while the
\* worker that ran it has not yet called task_done() and another worker has
\* run a task submitted meanwhile.
C13_Witness ==
    /\ dpc = "admit"
    /\ \E w1, w2 \in Workers :
          /\ wpc[w1] = "task_done" /\ wtask[w1].id = task.id
          /\ wpc[w2] = "put" /\ wtask[w2].id > task.id

\* A step of a worker thread: its position or its local task changes.
C14_WorkerMoves == wpc' # wpc \/ wtask' # wtask

\* C14: Single-writer frontier: every step of a worker (get, run, put,
\* task_done) leaves link_cache and pending_tasks unchanged; they change only
\* in steps of the driver (the admission of a link, the resumption of the
\* generator), and link_cache never loses an entry.
C14_SingleWriterFrontier ==
    /\ [][C14_WorkerMoves =>
             link_cache' = link_cache /\ pending_tasks' = pending_tasks]_vars
    /\ [][(link_cache' # link_cache \/ pending_tasks' # pending_tasks) =>
             /\ dpc \in {"admit", "resume"}
             /\ ~C14_WorkerMoves
             /\ link_cache' # link_cache => dpc = "admit"]_vars
    /\ [][link_cache \subseteq link_cache' /\
          Cardinality(link_cache') <= Cardinality(link_cache) + 1]_vars

\* C14 witness: a worker is about to call task_done() for a task other than
\* the seed's while the seen-set has grown and several tasks are pending.
C14_Witness ==
    /\ Cardinality(link_cache) >= 3
    /\ pending_tasks >= 2
    /\ \E w \in Workers : wpc[w] = "task_done" /\ wtask[w].id > 1

\* The order of the statements of Worker.run.
C15_NextStatement(pc) ==
    CASE pc = "get" -> "run"
      [] pc = "run" -> "put"
      [] pc = "put" -> "task_done"
      [] pc = "task_done" -> "get"
      [] OTHER -> "none"

\* A step of worker w follows the loop of Worker.run: whatever run() met, it
\* returns (its failure captured in the task) and the task is put on the
\* done queue next.
C15_WorkerLoops ==
    \A w \in Workers :
        wpc'[w] # wpc[w] =>
            /\ wpc'[w] = C15_NextStatement(wpc[w])
            /\ wpc[w] = "run" => RunReturned(wtask'[w])
            /\ wpc[w] = "put" => done' = Append(done, wtask[w])

\* Worker w was started and is at statement pc.
C15_WorkerAt(w, pc) == IF w \in Workers THEN wpc[w] = pc ELSE FALSE

\* C15: Worker survival: whatever the outcome of a task (success, timeout,
\* network error, error during link extraction) no exception leaves run():
\* the worker puts the task on the done queue, calls task_done() and takes
\* the next task; every started worker stays alive, and a worker that runs
\* a task is eventually back at todo.get().
C15_WorkerSurvival ==
    /\ [](/\ DOMAIN wpc = 1..cfg.threads
          /\ \A w \in Workers : wpc[w] \in {"get", "run", "put", "task_done"})
    /\ [][C15_WorkerLoops]_vars
    /\ \A w \in 1..MaxThreads :
          C15_WorkerAt(w, "run") ~> C15_WorkerAt(w, "get")

\* C15 witness: a finished run in which one task timed out, one failed
\* during link extraction and one succeeded, with every worker back at
\* todo.get().
C15_Witness ==
    /\ dpc = "exit"
    /\ \A w \in Workers : wpc[w] = "get"
    /\ \E i, j, k \in 1..Len(yielded) :
          /\ yielded[i].exception = ExcTimeout
          /\ yielded[j].exception = ExcError /\ yielded[j].status # StatusNone
          /\ yielded[k].exception = ExcNone

\* The tasks run() has returned on that are still held somewhere: by a
\* worker about to put, in the done queue, by the driver.
C16_RunTasks ==
    { wtask[w] : w \in { v \in Workers : wpc[v] \in {"put", "task_done"} } }
        \cup { done[i] : i \in 1..Len(done) }
        \cup (IF InLoopBody THEN { task } ELSE {})

C17_FailureLeavesNoLinks ==
    /\ \A i \in 1..Len(done) : done[i].exception # ExcNone => done[i].links = 0
    /\ InLoopBody => (task.exception # ExcNone => task.links = 0)

\* C19: Links of a failed task are never admitted: the driver never enters
\* 'for link in task.links' with a task that carries a captured exception;
\* while it handles such a task the seen-set and the submitted tasks stay as
\* they are, and no submitted task comes from the links of a failed task.
C19_FailedLinksNotAdmitted ==
    /\ [](dpc = "admit" => task.exception = ExcNone)
    /\ [](\A i \in SubmittedIds :
             submitted[i].from # 0 =>
                 \A k \in YieldedAt(submitted[i].from) : yielded[k].exception = ExcNone)
    /\ [][(InLoopBody /\ task.exception # ExcNone) =>
             /\ link_cache' = link_cache
             /\ submitted' = submitted
             /\ st' = st]_vars

\* C19 witness: the driver has handled a task, not the seed's, that failed
\* part-way through link extraction and so carries links.
C19_Witness ==
    /\ dpc = "resume"
    /\ task.id > 1
    /\ task.exception = ExcError
    /\ task.links > 0

\* The workers blocked in a request that never returns, and the ids of the
\* tasks they run.
C18_HungWorkers == { w \in Workers : wpc[w] = "hung" }
C18_HungIds == { wtask[w].id : w \in C18_HungWorkers }

\* No run has more tasks than there are URLs.
C18_TaskIds == 1..Cardinality(Urls)

\* C18: Hung-request isolation: with two workers or more and one request
\* that never returns, every submitted task but the hung one is eventually
\* yielded to the driver (run by a worker that is not blocked), the tasks
\* submitted after the hang included; the hung task is never yielded, and
\* the loop of poll_completed_tasks() is not left while it is outstanding.
C18_HungIsolation ==
    /\ \A id \in C18_TaskIds :
          (id \in SubmittedIds) ~> (YieldedAt(id) # {} \/ id \in C18_HungIds)
    /\ [](C18_HungWorkers # {} =>
             /\ dpc \notin {"join", "exit"}
             /\ pending_tasks >= 1
             /\ Cardinality(C18_HungWorkers) = 1
             /\ \A id \in C18_HungIds : YieldedAt(id) = {})

\* C18 witness: the request of the second task hangs, and the seed's task
\* and a third task have been yielded; the driver waits for the hung one.
C18_Witness ==
    /\ C18_HungIds = { 2 }
    /\ Len(submitted) = 3
    /\ YieldedAt(1) # {} /\ YieldedAt(3) # {}
    /\ dpc = "wait"
    /\ pending_tasks = 1

\* The tasks put on the todo queue for which task_done() has not been
\* called: those still queued and those a worker has taken.
C20_NotMarkedDone ==
    Len(todo) + Cardinality({ w \in Workers : wpc[w] \in {"run", "put", "task_done"} })

\* Nothing is left in the pool: both queues are empty, every task put was
\* marked done and every worker waits in todo.get().
C20_Quiescent ==
    /\ todo = <<>>
    /\ done = <<>>
    /\ unfinished = 0
    /\ \A w \in Workers : wpc[w] = "get"

\* C20: Quiescence at exit: when poll_completed_tasks() has finished, after
\* its todo.join(), the pool is quiescent and every submitted task was
\* yielded; when the loop is left for the join every submitted task has been
\* yielded and both queues are empty, the join waits exactly for the
\* workers that have not yet called task_done(), and it always returns.
C20_QuiescenceAtExit ==
    /\ [](unfinished = C20_NotMarkedDone)
    /\ [](dpc = "exit" => C20_Quiescent /\ Len(yielded) = Len(submitted))
    /\ [](dpc = "join" =>
             /\ Len(yielded) = Len(submitted)
             /\ todo = <<>> /\ done = <<>>
             /\ \A w \in Workers : wpc[w] \in {"get", "task_done"})
    /\ (dpc = "join") ~> (dpc = "exit")

\* C20 witness: the join has returned after a run of several tasks.
C20_Witness ==
    /\ dpc = "exit"
    /\ Len(submitted) >= 3
    /\ C20_Quiescent
    /\ pending_tasks = 0

====
